---- MODULE Spec2Model ----
(***************************************************************************)
(* SceneSage: model of src/ai_film_project.py.                             *)
(*                                                                         *)
(* Python strings are modelled as sequences of atoms (TLA+ strings): an    *)
(* atom is a run of characters that no operation of the program cuts in    *)
(* two ("\n", " ", ",", "[", "]", a recognized prefix, a timestamp, a      *)
(* word).  str.strip, str.split, str.replace and str.join are computed on  *)
(* these sequences as Python computes them on characters.                  *)
(***************************************************************************)
EXTENDS Integers, Sequences, FiniteSets, TLC

VARIABLES
    seg_in,              \* group_into_scenes: argument `subtitles`
    min_pause_seconds,   \* group_into_scenes: argument `min_pause_seconds`
    seg_ret,             \* group_into_scenes: outcome of the call
    srt_content,         \* parse_srt: text of the file at file_path
    srt_ret,             \* parse_srt: outcome of the call
    response_text,       \* parse_llm_response: argument
    resp_ret,            \* parse_llm_response: outcome of the call
    sections_dir,        \* state of the directory plan9_sections
    system_instruction,  \* module-level system_instruction
    pc,                  \* position of main()
    args,                \* argparse result: srt_file, model, output
    api_key,             \* os.environ.get("GEMINI_API_KEY")
    subtitles,           \* main: subtitles
    scenes,              \* main: scenes
    k,                   \* main: index of the scene the for loop is at
    results,             \* main: results
    error,               \* exception that left main(), "none" if none
    written,             \* what main() serialized, in order
    cache_contexts,      \* system_instruction of every caches.create request
    calls,               \* scene index of every generate_content request
    replies,             \* response.text of every generate_content reply
    remote_failed        \* scene whose remote call raised, 0 if none

vars == << seg_in, min_pause_seconds, seg_ret, srt_content, srt_ret,
           response_text, resp_ret, sections_dir, system_instruction,
           pc, args, api_key, subtitles, scenes, k, results, error,
           written, cache_contexts, calls, replies, remote_failed >>

(***************************************************************************)
(* Bounds of the model.                                                    *)
(***************************************************************************)
MaxUtt == 3        \* utterances handed to group_into_scenes
MaxSrtLines == 7   \* lines of a subtitle file handed to parse_srt
MaxReplyLines == 2 \* lines of a reply handed to parse_llm_response
MaxBlocks == 3     \* subtitle blocks of the file a run of main() reads

(***************************************************************************)
(* Python str operations on atom sequences.                                *)
(***************************************************************************)
NL == "\n"
SP == " "

IsSpace(a) == a \in {SP, NL}

RECURSIVE str_lstrip(_)
str_lstrip(s) ==
    IF s # << >> /\ IsSpace(Head(s)) THEN str_lstrip(Tail(s)) ELSE s

RECURSIVE str_rstrip(_)
str_rstrip(s) ==
    IF s # << >> /\ IsSpace(s[Len(s)])
    THEN str_rstrip(SubSeq(s, 1, Len(s) - 1))
    ELSE s

str_strip(s) == str_rstrip(str_lstrip(s))

startswith(s, p) == Len(s) >= Len(p) /\ SubSeq(s, 1, Len(p)) = p

endswith(s, p) == Len(s) >= Len(p) /\ SubSeq(s, Len(s) - Len(p) + 1, Len(s)) = p

\* s.split(sep) for a non-empty sep: non-overlapping matches, left to right.
RECURSIVE SplitFrom(_, _, _, _, _)
SplitFrom(s, sep, i, cur, acc) ==
    IF i > Len(s) THEN Append(acc, cur)
    ELSE IF i + Len(sep) - 1 <= Len(s) /\ SubSeq(s, i, i + Len(sep) - 1) = sep
         THEN SplitFrom(s, sep, i + Len(sep), << >>, Append(acc, cur))
         ELSE SplitFrom(s, sep, i + 1, Append(cur, s[i]), acc)

str_split(s, sep) == SplitFrom(s, sep, 1, << >>, << >>)

\* sep.join(parts)
RECURSIVE str_join(_, _)
str_join(parts, sep) ==
    IF parts = << >> THEN << >>
    ELSE IF Len(parts) = 1 THEN parts[1]
    ELSE parts[1] \o sep \o str_join(Tail(parts), sep)

\* s.replace(old, new) for a non-empty old
str_replace(s, old, new) == str_join(str_split(s, old), new)

(***************************************************************************)
(* Timestamps.  A timestamp atom is a string the pattern                   *)
(* \d{2}:\d{2}:\d{2},\d{3} matches; TsFields gives its four numbers.       *)
(***************************************************************************)
TsFields(ts) ==
    CASE ts = "00:00:01,000" -> << 0, 0, 1, 0 >>
      [] ts = "00:00:02,000" -> << 0, 0, 2, 0 >>
      [] ts = "00:00:04,999" -> << 0, 0, 4, 999 >>
      [] ts = "00:00:05,000" -> << 0, 0, 5, 0 >>
      [] ts = "00:00:11,000" -> << 0, 0, 11, 0 >>
      [] ts = "00:61:00,000" -> << 0, 61, 0, 0 >>

TsAtoms == { "00:00:01,000", "00:00:02,000", "00:00:04,999", "00:00:05,000",
             "00:00:11,000", "00:61:00,000" }

\* datetime.strptime(ts, '%H:%M:%S,%f'): ValueError unless hour < 24,
\* minute < 60 and second < 60; otherwise the time of day, here in
\* milliseconds since midnight.
strptime(ts) ==
    LET f == TsFields(ts) IN
    IF f[1] < 24 /\ f[2] < 60 /\ f[3] < 60
    THEN [ok |-> TRUE, ms |-> ((f[1] * 60 + f[2]) * 60 + f[3]) * 1000 + f[4]]
    ELSE [ok |-> FALSE, ms |-> 0]

(***************************************************************************)
(* group_into_scenes                                                       *)
(***************************************************************************)
Returned(v) == [raised |-> "none", value |-> v]
Raised(e) == [raised |-> e, value |-> << >>]
NotCalled == [raised |-> "pending", value |-> << >>]

\* the comparison with > in place of >=
PauseAtLeastStrict(prev_end, current_start, mps) ==
    current_start.ms - prev_end.ms > mps * 1000

\* pause_duration >= min_pause_seconds, on two parsed times
PauseAtLeast(prev_end, current_start, mps) ==
    current_start.ms - prev_end.ms >= mps * 1000

\* the for loop, at index i (1-based), with scenes and current_scene
RECURSIVE GroupLoop(_, _, _, _, _)
GroupLoop(subs, mps, i, scs, current_scene) ==
    IF i > Len(subs)
    THEN Returned(IF current_scene # << >> THEN Append(scs, current_scene) ELSE scs)
    ELSE IF current_scene = << >>
    THEN GroupLoop(subs, mps, i + 1, scs, << subs[i] >>)
    ELSE LET prev_end == strptime(subs[i - 1].end)
             current_start == strptime(subs[i].start)
         IN  IF ~prev_end.ok \/ ~current_start.ok
             THEN Raised("ValueError")
             ELSE IF PauseAtLeast(prev_end, current_start, mps)
             THEN GroupLoop(subs, mps, i + 1, Append(scs, current_scene), << subs[i] >>)
             ELSE GroupLoop(subs, mps, i + 1, scs, Append(current_scene, subs[i]))

group_into_scenes(subs, mps) == GroupLoop(subs, mps, 1, << >>, << >>)

(***************************************************************************)
(* parse_srt                                                               *)
(***************************************************************************)
DigitAtoms == { "1", "2", "3" }

DigitVal(a) == CASE a = "1" -> 1 [] a = "2" -> 2 [] a = "3" -> 3

RECURSIVE DigitsValue(_)
DigitsValue(t) ==
    IF t = << >> THEN 0
    ELSE DigitsValue(SubSeq(t, 1, Len(t) - 1)) * 10 + DigitVal(t[Len(t)])

\* int(s): surrounding whitespace is ignored; ValueError unless what is left
\* is a non-empty run of digits.
py_int(s) ==
    LET t == str_strip(s) IN
    IF t # << >> /\ \A i \in 1..Len(t) : t[i] \in DigitAtoms
    THEN [ok |-> TRUE, val |-> DigitsValue(t)]
    ELSE [ok |-> FALSE, val |-> 0]

\* re.findall(r'(\d{2}:\d{2}:\d{2},\d{3})', timestamp_line)
findall_times(timestamp_line) == SelectSeq(timestamp_line, LAMBDA a : a \in TsAtoms)

\* 'index': int(lines[0])
BlockIndex(lines) == py_int(lines[1])

\* the for loop over subtitle_blocks, at block b
RECURSIVE SrtLoop(_, _, _)
SrtLoop(subtitle_blocks, b, subs) ==
    IF b > Len(subtitle_blocks) THEN Returned(subs)
    ELSE LET lines == str_split(str_strip(subtitle_blocks[b]), << NL >>) IN
         IF Len(lines) < 3 THEN SrtLoop(subtitle_blocks, b + 1, subs)
         ELSE LET times == findall_times(lines[2]) IN
              IF Len(times) # 2 THEN SrtLoop(subtitle_blocks, b + 1, subs)
              ELSE LET text == str_join(SubSeq(lines, 3, Len(lines)), << SP >>)
                       idx == BlockIndex(lines)
                   IN  IF ~idx.ok THEN Raised("ValueError")
                       ELSE SrtLoop(subtitle_blocks, b + 1,
                                Append(subs, [index |-> idx.val, start |-> times[1],
                                              end |-> times[2], text |-> text]))

\* parse_srt on the text of a file that could be read
parse_srt(content) == SrtLoop(str_split(str_strip(content), << NL, NL >>), 1, << >>)

(***************************************************************************)
(* parse_llm_response                                                      *)
(***************************************************************************)
NoneText == [isNone |-> TRUE, text |-> << >>]
Str(t) == [isNone |-> FALSE, text |-> t]

SentinelAnalysis ==
    [summary |-> << "Analysis parsing failed" >>, characters |-> << >>,
     mood |-> << "unknown" >>, cultural_refs |-> << >>]

DefaultAnalysis ==
    [summary |-> << >>, characters |-> << >>, mood |-> << >>, cultural_refs |-> << >>]

\* [x.strip() for x in text.split(',') if x.strip()]
RECURSIVE StripNonEmpty(_)
StripNonEmpty(parts) ==
    IF parts = << >> THEN << >>
    ELSE LET x == str_strip(Head(parts)) IN
         IF x # << >> THEN << x >> \o StripNonEmpty(Tail(parts))
         ELSE StripNonEmpty(Tail(parts))

CommaList(text) == StripNonEmpty(str_split(text, << "," >>))

\* if t.startswith('[') and t.endswith(']'): t = t[1:-1]
Unbracket(t) ==
    IF startswith(t, << "[" >>) /\ endswith(t, << "]" >>)
    THEN SubSeq(t, 2, Len(t) - 1)
    ELSE t

\* line.replace(prefix, "").strip()
AfterPrefix(line, prefix) == str_strip(str_replace(line, << prefix >>, << >>))

\* one iteration of `for line in lines`, the line unstripped
ParseLine(analysis, rawline) ==
    LET line == str_strip(rawline) IN
    IF startswith(line, << "Summary:" >>)
    THEN [analysis EXCEPT !.summary = AfterPrefix(line, "Summary:")]
    ELSE IF startswith(line, << "Characters:" >>)
    THEN LET chars_text == Unbracket(AfterPrefix(line, "Characters:")) IN
         IF chars_text # << >>
         THEN [analysis EXCEPT !.characters = CommaList(chars_text)]
         ELSE analysis
    ELSE IF startswith(line, << "Mood:" >>)
    THEN [analysis EXCEPT !.mood = AfterPrefix(line, "Mood:")]
    ELSE IF startswith(line, << "Cultural References:" >>)
    THEN LET refs_text == Unbracket(AfterPrefix(line, "Cultural References:")) IN
         IF refs_text # << >> /\ refs_text # << "[", "]" >>
         THEN [analysis EXCEPT !.cultural_refs = CommaList(refs_text)]
         ELSE analysis
    ELSE analysis

RECURSIVE ParseLines(_, _)
ParseLines(analysis, lines) ==
    IF lines = << >> THEN analysis
    ELSE ParseLines(ParseLine(analysis, Head(lines)), Tail(lines))

\* the result for a reply no line of which is recognized, were it the sentinel
UnparsedResultSentinel(analysis) ==
    IF analysis = DefaultAnalysis THEN SentinelAnalysis ELSE analysis

\* return analysis
UnparsedResult(analysis) == analysis

\* response_text.strip() raises AttributeError on None; the except clause
\* returns the sentinel.
parse_llm_response(resp) ==
    IF resp.isNone THEN SentinelAnalysis
    ELSE UnparsedResult(ParseLines(DefaultAnalysis, str_split(str_strip(resp.text), << NL >>)))

(***************************************************************************)
(* load_movie_context and the module-level system_instruction              *)
(***************************************************************************)
section_order ==
    << << "Introduction", ".txt" >>, << "Plot", ".txt" >>, << "Cast", ".txt" >>,
       << "Production", ".txt" >>, << "Reception", ".txt" >>,
       << "Legacy", ".txt" >>, << "Documentaries", ".txt" >> >>

UpperAtom(a) ==
    CASE a = "Introduction" -> "INTRODUCTION"
      [] a = "Plot" -> "PLOT"
      [] a = "Cast" -> "CAST"
      [] a = "Production" -> "PRODUCTION"
      [] a = "Reception" -> "RECEPTION"
      [] a = "Legacy" -> "LEGACY"
      [] a = "Documentaries" -> "DOCUMENTARIES"
      [] OTHER -> a

str_upper(s) == [i \in 1..Len(s) |-> UpperAtom(s[i])]

\* section_file.replace('.txt', '').replace('_', ' ')
SectionName(section_file) ==
    str_replace(str_replace(section_file, << ".txt" >>, << >>), << "_" >>, << SP >>)

\* f"=== {section_name.upper()} ===\n{content}"
SectionBlock(section_file, content) ==
    << "=== " >> \o str_upper(SectionName(section_file)) \o << " ===", NL >> \o content

\* the for loop over section_order; dir maps a position of section_order to
\* the state of that file
RECURSIVE ContextLoop(_, _, _)
ContextLoop(dir, i, context_parts) ==
    IF i > Len(section_order) THEN context_parts
    ELSE LET f == dir[i] IN
         IF f.exists /\ f.readable /\ str_strip(f.content) # << >>
         THEN ContextLoop(dir, i + 1,
                  Append(context_parts, SectionBlock(section_order[i], str_strip(f.content))))
         ELSE ContextLoop(dir, i + 1, context_parts)

load_movie_context(dir) == str_join(ContextLoop(dir, 1, << >>), << NL, NL >>)

movie_intro == << "This movie, Plan 9 from Outer Space, is a 1957 American independent science fiction-horror film. (...)" >>
influence_intro == << "and his film were posthumously given two Golden Turkey Awards (...) gained a large cult following." >>
main_character_intro == << "Pilot Jeff Trent, Wife Paula Trent, (...) and the alien invaders." >>

\* f"{movie_intro}\ninfluence_intro\n{main_character_intro}"
FallbackInstruction ==
    movie_intro \o << NL, "influence_intro", NL >> \o main_character_intro

\* lines 48-55: load, and the fallback if the loaded document is empty
ModuleSystemInstruction(dir) ==
    LET loaded == load_movie_context(dir) IN
    IF loaded = << >> THEN FallbackInstruction ELSE loaded

(***************************************************************************)
(* Idle values: what a specification leaves alone.                         *)
(***************************************************************************)
MissingFile == [exists |-> FALSE, readable |-> FALSE, content |-> << >>]

SegIdle == seg_in = << >> /\ min_pause_seconds = 4 /\ seg_ret = NotCalled
SrtIdle == srt_content = << >> /\ srt_ret = NotCalled
RespIdle == response_text = Str(<< >>) /\ resp_ret = NotCalled
MainIdle ==
    /\ args = [readable |-> TRUE, content |-> << >>, model |-> << "gemini" >>,
               output |-> "output.json"]
    /\ api_key = "None"
    /\ subtitles = << >> /\ scenes = << >> /\ k = 0 /\ results = << >>
    /\ error = "none" /\ written = << >> /\ cache_contexts = << >>
    /\ calls = << >> /\ replies = << >> /\ remote_failed = 0

segVars == << seg_in, min_pause_seconds, seg_ret >>
srtVars == << srt_content, srt_ret >>
respVars == << response_text, resp_ret >>
ctxVars == << sections_dir, system_instruction >>
mainVars == << args, api_key, subtitles, scenes, k, results, error, written,
               cache_contexts, calls, replies, remote_failed >>

(***************************************************************************)
(* SpecSeg: group_into_scenes on every utterance sequence of the bounds.   *)
(***************************************************************************)
SegTimes == { "00:00:01,000", "00:00:04,999", "00:00:05,000", "00:61:00,000" }

MinPauseSet == { 0, 4 }

\* utterance i of an input, with the two timestamps p
SegUtterance(i, p) == [index |-> i, start |-> p[1], end |-> p[2], text |-> << "t" >>]

InitSeg ==
    /\ \E n \in 0..MaxUtt : \E p \in [1..n -> SegTimes \X SegTimes] :
           seg_in = [i \in 1..n |-> SegUtterance(i, p[i])]
    /\ min_pause_seconds \in MinPauseSet
    /\ seg_ret = NotCalled
    /\ SrtIdle /\ RespIdle /\ MainIdle
    /\ sections_dir = [i \in 1..Len(section_order) |-> MissingFile]
    /\ system_instruction = << >>
    /\ pc = "idle"

CallGroupIntoScenes ==
    /\ seg_ret = NotCalled
    /\ pc = "idle"
    /\ seg_ret' = group_into_scenes(seg_in, min_pause_seconds)
    /\ UNCHANGED << seg_in, min_pause_seconds, srtVars, respVars, ctxVars, pc, mainVars >>

NextSeg == CallGroupIntoScenes

SpecSeg == InitSeg /\ [][NextSeg]_vars

RECURSIVE Flatten(_)
Flatten(ss) == IF ss = << >> THEN << >> ELSE Head(ss) \o Flatten(Tail(ss))

\* the scene (position in scs) that holds the i-th utterance of the input
RECURSIVE SceneOf(_, _)
SceneOf(scs, i) ==
    IF scs = << >> THEN 0
    ELSE IF i <= Len(Head(scs)) THEN 1
    ELSE 1 + SceneOf(Tail(scs), i - Len(Head(scs)))

\* milliseconds from end(u[i-1]) to start(u[i]), read off the timestamps
TsMillis(ts) ==
    LET f == TsFields(ts) IN f[1] * 3600000 + f[2] * 60000 + f[3] * 1000 + f[4]

GapMillis(subs, i) == TsMillis(subs[i].start) - TsMillis(subs[i - 1].end)

\* C1: for all utterance sequences, every sequence parse_srt can emit
\* included, group_into_scenes returns a partition of its input: the scenes
\* concatenated are the input, every scene is non-empty, empty input gives
\* no scene and a single utterance gives one single-utterance scene.
C1_ReturnsPartition ==
    seg_ret # NotCalled =>
        /\ seg_ret.raised = "none"
        /\ Flatten(seg_ret.value) = seg_in
        /\ \A j \in 1..Len(seg_ret.value) : seg_ret.value[j] # << >>
        /\ (seg_in = << >> => seg_ret.value = << >>)
        /\ (Len(seg_in) = 1 => seg_ret.value = << seg_in >>)

TwoUtterances10s ==
    << [index |-> 1, start |-> "00:00:01,000", end |-> "00:00:01,000", text |-> << "a" >>],
       [index |-> 2, start |-> "00:00:11,000", end |-> "00:00:11,000", text |-> << "b" >>] >>

FiveUtterancesNoPause ==
    << [index |-> 1, start |-> "00:00:01,000", end |-> "00:00:02,000", text |-> << "a" >>],
       [index |-> 2, start |-> "00:00:02,000", end |-> "00:00:04,999", text |-> << "b" >>],
       [index |-> 3, start |-> "00:00:05,000", end |-> "00:00:05,000", text |-> << "c" >>],
       [index |-> 4, start |-> "00:00:05,000", end |-> "00:00:11,000", text |-> << "d" >>],
       [index |-> 5, start |-> "00:00:11,000", end |-> "00:00:11,000", text |-> << "e" >>] >>

\* C2: in the output of group_into_scenes, consecutive utterances u[i-1],
\* u[i] are in different scenes iff start(u[i]) - end(u[i-1]) >=
\* min_pause_seconds (a zero or negative gap below the threshold keeps them
\* together); two utterances 10 s apart give two scenes at threshold 4, five
\* utterances with no such pause give one scene of five.
C2_SplitIffPause ==
    /\ seg_ret.raised = "none" =>
           \A i \in 2..Len(seg_in) :
               (SceneOf(seg_ret.value, i) # SceneOf(seg_ret.value, i - 1))
                   <=> (GapMillis(seg_in, i) >= min_pause_seconds * 1000)
    /\ seg_ret # NotCalled =>
           /\ group_into_scenes(TwoUtterances10s, 4)
                  = Returned(<< << TwoUtterances10s[1] >>, << TwoUtterances10s[2] >> >>)
           /\ group_into_scenes(FiveUtterancesNoPause, 4)
                  = Returned(<< FiveUtterancesNoPause >>)

\* a call that returned, with a pause of exactly the threshold (a cut) and a
\* negative gap (no cut)
C2_Witness ==
    /\ seg_ret.raised = "none"
    /\ min_pause_seconds = 4
    /\ Len(seg_in) = 3
    /\ GapMillis(seg_in, 2) = 4000
    /\ GapMillis(seg_in, 3) < 0
    /\ Len(seg_ret.value) = 2

(***************************************************************************)
(* SpecSrt: parse_srt on every file of the bounds, a file being lines      *)
(* joined by "\n".                                                         *)
(***************************************************************************)
SrtLineKinds ==
    { << >>, << "1" >>, << "2" >>, << "x" >>, << "00:00:01,000" >>,
      << "00:00:01,000", SP, "-->", SP, "00:00:02,000" >> }

InitSrt ==
    /\ \E n \in 0..MaxSrtLines : \E ls \in [1..n -> SrtLineKinds] :
           srt_content = str_join(ls, << NL >>)
    /\ srt_ret = NotCalled
    /\ SegIdle /\ RespIdle /\ MainIdle
    /\ sections_dir = [i \in 1..Len(section_order) |-> MissingFile]
    /\ system_instruction = << >>
    /\ pc = "idle"

CallParseSrt ==
    /\ srt_ret = NotCalled
    /\ pc = "idle"
    /\ srt_ret' = parse_srt(srt_content)
    /\ UNCHANGED << srt_content, segVars, respVars, ctxVars, pc, mainVars >>

NextSrt == CallParseSrt

SpecSrt == InitSrt /\ [][NextSrt]_vars

\* the blocks of a file, each as its lines
BlocksOf(content) ==
    LET bs == str_split(str_strip(content), << NL, NL >>) IN
    [b \in 1..Len(bs) |-> str_split(str_strip(bs[b]), << NL >>)]

\* a block the claim says is kept: three lines or more, two timestamps on
\* the second, an integer on the first
WellFormedBlock(lines) ==
    /\ Len(lines) >= 3
    /\ Len(findall_times(lines[2])) = 2
    /\ py_int(lines[1]).ok

\* C4: parse_srt never raises on a malformed block: a block with fewer than
\* 3 lines, without exactly two timestamps on its second line, or with a
\* first line that is not an integer is skipped, and the other blocks are
\* returned in file order.
C4_MalformedBlocksSkipped ==
    srt_ret # NotCalled =>
        /\ srt_ret.raised = "none"
        /\ LET kept == SelectSeq(BlocksOf(srt_content), WellFormedBlock) IN
           /\ Len(srt_ret.value) = Len(kept)
           /\ \A j \in 1..Len(kept) :
                  /\ srt_ret.value[j].index = py_int(kept[j][1]).val
                  /\ srt_ret.value[j].text = str_join(SubSeq(kept[j], 3, Len(kept[j])), << SP >>)

(***************************************************************************)
(* SpecResp: parse_llm_response on None and on every reply of the bounds,  *)
(* a reply being lines joined by "\n".                                     *)
(***************************************************************************)
Prefixes == { "Summary:", "Characters:", "Mood:", "Cultural References:" }

ReplyLineHeads == { << >> } \cup { << p >> : p \in Prefixes }

ReplyLineBodies ==
    { << >>,
      << SP, "A" >>,
      << SP, "[", "A", ",", SP, "B", "]" >>,
      << SP, "[", "]" >>,
      << SP, "[", "[", "]", "]" >>,
      << SP, "A", SP, "Summary:", SP, "B" >>,
      << SP, "A", ",", ",", "B", SP >>,
      << SP, "[", SP, "]" >> }

ReplyLines == { h \o b : h \in ReplyLineHeads, b \in ReplyLineBodies }

InitResp ==
    /\ \/ response_text = NoneText
       \/ \E n \in 0..MaxReplyLines : \E ls \in [1..n -> ReplyLines] :
              response_text = Str(str_join(ls, << NL >>))
    /\ resp_ret = NotCalled
    /\ SegIdle /\ SrtIdle /\ MainIdle
    /\ sections_dir = [i \in 1..Len(section_order) |-> MissingFile]
    /\ system_instruction = << >>
    /\ pc = "idle"

CallParseLlmResponse ==
    /\ resp_ret = NotCalled
    /\ pc = "idle"
    /\ resp_ret' = Returned(parse_llm_response(response_text))
    /\ UNCHANGED << response_text, segVars, srtVars, ctxVars, pc, mainVars >>

NextResp == CallParseLlmResponse

SpecResp == InitResp /\ [][NextResp]_vars

\* the lines of a reply, each trimmed
ReplyLinesOf(text) ==
    LET ls == str_split(str_strip(text), << NL >>) IN
    [i \in 1..Len(ls) |-> str_strip(ls[i])]

Recognized(line) == line # << >> /\ line[1] \in Prefixes

\* empty, or no line starts with a recognized prefix
IsGarbage(resp) ==
    /\ ~resp.isNone
    /\ \A i \in 1..Len(ReplyLinesOf(resp.text)) : ~Recognized(ReplyLinesOf(resp.text)[i])

Following(line) == str_strip(SubSeq(line, 2, Len(line)))

\* that text with one enclosing bracket pair removed, split on commas,
\* trimmed, empty segments dropped
ListOf(t) ==
    LET u == IF Len(t) >= 2 /\ t[1] = "[" /\ t[Len(t)] = "]"
             THEN SubSeq(t, 2, Len(t) - 1) ELSE t
    IN  StripNonEmpty(str_split(u, << "," >>))

LinesWith(resp, p) ==
    { i \in 1..Len(ReplyLinesOf(resp.text)) :
          Recognized(ReplyLinesOf(resp.text)[i]) /\ ReplyLinesOf(resp.text)[i][1] = p }

\* the field the claim gives for prefix p (each prefix on one line at most)
ClaimedText(resp, p) ==
    IF LinesWith(resp, p) = { } THEN << >>
    ELSE Following(ReplyLinesOf(resp.text)[CHOOSE i \in LinesWith(resp, p) : TRUE])

ExampleReply ==
    Str(<< "Summary:", SP, "A man walks.", NL,
           "Characters:", SP, "[", "Jeff", ",", SP, "Paula", "]", NL,
           "Mood:", SP, "tense", NL,
           "Cultural References:", SP, "[", "]" >>)

\* C8: for a reply whose lines start with the recognized prefixes, in any
\* order, each optional, every field is set from the text that follows its
\* prefix on that line: summary and mood are that text trimmed, characters
\* and cultural_refs are that text with one bracket pair removed, split on
\* commas, trimmed, empty segments dropped; other lines change nothing.
C8_FieldsFromPrefixedLines ==
    (/\ resp_ret # NotCalled
     /\ ~response_text.isNone
     /\ \A p \in Prefixes : Cardinality(LinesWith(response_text, p)) <= 1)
    => /\ resp_ret.value.summary = ClaimedText(response_text, "Summary:")
       /\ resp_ret.value.mood = ClaimedText(response_text, "Mood:")
       /\ resp_ret.value.characters = ListOf(ClaimedText(response_text, "Characters:"))
       /\ resp_ret.value.cultural_refs = ListOf(ClaimedText(response_text, "Cultural References:"))
       /\ parse_llm_response(ExampleReply)
              = [summary |-> << "A man walks." >>,
                 characters |-> << << "Jeff" >>, << "Paula" >> >>,
                 mood |-> << "tense" >>, cultural_refs |-> << >>]

(***************************************************************************)
(* Module import: system_instruction is set once, when the module loads.   *)
(***************************************************************************)
FileStates ==
    { MissingFile,
      [exists |-> TRUE, readable |-> FALSE, content |-> << >>],
      [exists |-> TRUE, readable |-> TRUE, content |-> << SP, NL >>],
      [exists |-> TRUE, readable |-> TRUE, content |-> << "# Title", NL, NL, "body", NL >>] }

ImportModule ==
    /\ pc = "import"
    /\ system_instruction' = ModuleSystemInstruction(sections_dir)
    /\ pc' = "start"
    /\ UNCHANGED << sections_dir, segVars, srtVars, respVars, mainVars >>

InitCtx ==
    /\ sections_dir \in [1..Len(section_order) -> FileStates]
    /\ system_instruction = << >>
    /\ pc = "import"
    /\ SegIdle /\ SrtIdle /\ RespIdle /\ MainIdle

NextCtx == ImportModule

SpecCtx == InitCtx /\ [][NextCtx]_vars

\* the sections the claim says are rendered, in preference order
Available(dir) ==
    SelectSeq([i \in 1..Len(section_order) |-> i],
              LAMBDA i : dir[i].exists /\ dir[i].readable /\ str_strip(dir[i].content) # << >>)

Occurs(a, s) == \E i \in 1..Len(s) : s[i] = a

\* C10: the context is the blocks of the sections whose file exists, is
\* readable and has non-empty trimmed content, in preference order, each an
\* uppercased header plus body, joined by a blank line; with no such section
\* it is the fixed synopsis of three parts: title paragraph, reception note
\* and character list.
C10_ContextOrThreePartFallback ==
    pc = "start" =>
        LET av == Available(sections_dir) IN
        IF av = << >>
        THEN /\ Occurs(movie_intro[1], system_instruction)
             /\ Occurs(influence_intro[1], system_instruction)
             /\ Occurs(main_character_intro[1], system_instruction)
        ELSE system_instruction =
                 str_join([j \in 1..Len(av) |->
                              << "=== ", UpperAtom(section_order[av[j]][1]), " ===", NL >>
                                  \o str_strip(sections_dir[av[j]].content)],
                          << NL, NL >>)

(***************************************************************************)
(* Spec: a run of main().                                                  *)
(***************************************************************************)
TimeLine(a, b) == << a, SP, "-->", SP, b >>

BlockA == << "1", NL >> \o TimeLine("00:00:01,000", "00:00:01,000") \o << NL, "a" >>
BlockB == << "2", NL >> \o TimeLine("00:00:02,000", "00:00:04,999") \o << NL, "b", NL, "c" >>
BlockC == << "3", NL >> \o TimeLine("00:00:05,000", "00:00:05,000") \o << NL, "d" >>
BlockD == << "1", "2", NL >> \o TimeLine("00:00:11,000", "00:00:11,000") \o << NL, "e" >>
BlockX == << "x", NL >> \o TimeLine("00:00:01,000", "00:00:02,000") \o << NL, "f" >>
BlockV == << "3", NL >> \o TimeLine("00:61:00,000", "00:00:01,000") \o << NL, "g" >>

MainBlocks == { BlockA, BlockB, BlockC, BlockD, BlockX, BlockV }

Models == { << "gemini", "-2.0-flash" >>, << "openai:", "gpt-4o" >> }

\* os.environ.get: None when unset, else the value, which may be empty
ApiKeys == { "None", "", "secret" }

Outputs == { "output.json", "" }

MainDirs ==
    { [i \in 1..Len(section_order) |-> MissingFile],
      [i \in 1..Len(section_order) |->
          IF i = 2 THEN [exists |-> TRUE, readable |-> TRUE, content |-> << "body", NL >>]
          ELSE MissingFile] }

MainReplies ==
    { NoneText,
      Str(<< "garbage" >>),
      Str(<< "Summary:", SP, "s", NL, "Characters:", SP, "[", "A", ",", SP, "B", "]", NL,
             "Mood:", SP, "m", NL, "Cultural References:", SP, "[", "]" >>) }

Init ==
    /\ sections_dir \in MainDirs
    /\ system_instruction = << >>
    /\ pc = "import"
    /\ \E m \in Models, o \in Outputs :
          \/ args = [readable |-> FALSE, content |-> << >>, model |-> m, output |-> o]
          \/ \E n \in 0..MaxBlocks : \E bs \in [1..n -> MainBlocks] :
                 args = [readable |-> TRUE, content |-> str_join(bs, << NL, NL >>),
                         model |-> m, output |-> o]
    /\ api_key \in ApiKeys
    /\ subtitles = << >> /\ scenes = << >> /\ k = 0 /\ results = << >>
    /\ error = "none" /\ written = << >> /\ cache_contexts = << >>
    /\ calls = << >> /\ replies = << >> /\ remote_failed = 0
    /\ SegIdle /\ SrtIdle /\ RespIdle

idleVars == << segVars, srtVars, respVars, ctxVars, args, api_key >>

\* an exception leaves main()
Abort(e) == pc' = "raised" /\ error' = e

\* subtitles = parse_srt(args.srt_file)
ParseSrtStep ==
    /\ pc = "start"
    /\ IF ~args.readable
       THEN Abort("OSError") /\ UNCHANGED subtitles
       ELSE LET r == parse_srt(args.content) IN
            IF r.raised # "none"
            THEN Abort(r.raised) /\ UNCHANGED subtitles
            ELSE subtitles' = r.value /\ pc' = "group" /\ UNCHANGED error
    /\ UNCHANGED << idleVars, scenes, k, results, written, cache_contexts, calls,
                    replies, remote_failed >>

\* scenes = group_into_scenes(subtitles)
GroupStep ==
    /\ pc = "group"
    /\ LET r == group_into_scenes(subtitles, 4) IN
       IF r.raised # "none"
       THEN Abort(r.raised) /\ UNCHANGED << scenes, k >>
       ELSE scenes' = r.value /\ k' = 1 /\ pc' = "loop" /\ UNCHANGED error
    /\ UNCHANGED << idleVars, subtitles, results, written, cache_contexts, calls,
                    replies, remote_failed >>

\* for scene in scenes: the next scene, or the end of the loop
LoopStep ==
    /\ pc = "loop"
    /\ pc' = IF k <= Len(scenes) THEN "dispatch" ELSE "write"
    /\ UNCHANGED << idleVars, subtitles, scenes, k, results, error, written,
                    cache_contexts, calls, replies, remote_failed >>

\* analyze_scene_with_llm, up to the client: the backend and the credential
Dispatch ==
    /\ pc = "dispatch"
    /\ IF ~startswith(args.model, << "gemini" >>)
       THEN Abort("ValueError: Unsupported model")
       ELSE IF api_key \in { "None", "" }
       THEN Abort("ValueError: GEMINI_API_KEY not found")
       ELSE pc' = "cache" /\ UNCHANGED error
    /\ UNCHANGED << idleVars, subtitles, scenes, k, results, written,
                    cache_contexts, calls, replies, remote_failed >>

SceneText(scene) == str_join([i \in 1..Len(scene) |-> scene[i].text], << SP >>)

SceneStart(scene) == scene[1].start

\* scene[0]["end"] in place of scene[-1]["end"]
SceneEndOfFirst(scene) == scene[1].end

\* scene_end = scene[-1]["end"]
SceneEnd(scene) == scene[Len(scene)].end

\* the record main() appends for a scene and its analysis
ResultEntry(scene, analysis) ==
    [start |-> SceneStart(scene), end |-> SceneEnd(scene), transcript |-> SceneText(scene),
     summary |-> analysis.summary, characters |-> analysis.characters,
     mood |-> analysis.mood, cultural_refs |-> analysis.cultural_refs]

\* a remote call raises, were the exception caught and the scene given the
\* sentinel
RemoteFailureSwallowed ==
    /\ remote_failed' = k
    /\ results' = Append(results, ResultEntry(scenes[k], SentinelAnalysis))
    /\ k' = k + 1
    /\ pc' = "loop"
    /\ UNCHANGED error

\* a remote call raises: nothing catches it, in analyze_scene_with_llm or main
RemoteFailure ==
    /\ remote_failed' = k
    /\ Abort("RemoteError")
    /\ UNCHANGED << results, k >>

\* client.caches.create(..., system_instruction=system_instruction)
CachesCreate ==
    /\ pc = "cache"
    /\ cache_contexts' = Append(cache_contexts, system_instruction)
    /\ \/ pc' = "generate" /\ UNCHANGED << results, k, error, remote_failed >>
       \/ RemoteFailure
    /\ UNCHANGED << idleVars, subtitles, scenes, written, calls, replies >>

\* client.models.generate_content(...), parse_llm_response(response.text) and
\* results.append(...)
GenerateContent ==
    /\ pc = "generate"
    /\ calls' = Append(calls, k)
    /\ \/ \E r \in MainReplies :
              /\ replies' = Append(replies, r)
              /\ results' = Append(results, ResultEntry(scenes[k], parse_llm_response(r)))
              /\ k' = k + 1
              /\ pc' = "loop"
              /\ UNCHANGED << error, remote_failed >>
       \/ RemoteFailure /\ UNCHANGED replies
    /\ UNCHANGED << idleVars, subtitles, scenes, written, cache_contexts >>

\* json.dumps(results), then the file args.output or, without one, stdout
WriteOutput ==
    /\ pc = "write"
    /\ \/ /\ written' = Append(written, [to |-> IF args.output # "" THEN "file" ELSE "stdout",
                                          json |-> results])
          /\ pc' = "done"
          /\ UNCHANGED error
       \/ /\ args.output # ""
          /\ Abort("OSError")
          /\ UNCHANGED written
    /\ UNCHANGED << idleVars, subtitles, scenes, k, results, cache_contexts, calls,
                    replies, remote_failed >>

Next ==
    \/ ImportModule
    \/ ParseSrtStep
    \/ GroupStep
    \/ LoopStep
    \/ Dispatch
    \/ CachesCreate
    \/ GenerateContent
    \/ WriteOutput

Spec == Init /\ [][Next]_vars

ConfigBad == api_key \in { "None", "" } \/ args.model[1] # "gemini"

\* C5: in every run of main, with no credential configured or with an
\* unsupported model identifier the run fails and nothing is serialized,
\* whatever the transcript, one that yields zero scenes included.
C5_BadConfigNeverSerializes ==
    ConfigBad => pc # "done" /\ written = << >>

\* the texts of a scene's utterances with one space between them
RECURSIVE SpacedTexts(_)
SpacedTexts(scene) ==
    IF Len(scene) = 1 THEN scene[1].text
    ELSE scene[1].text \o << SP >> \o SpacedTexts(Tail(scene))

\* C6: scenes are annotated one at a time in scene order, one annotation per
\* scene, the call for a scene issued only once every earlier call has
\* returned; the result list is serialized once, after the last annotation,
\* one entry per scene in scene order, entry j with the start of the scene's
\* first utterance, the end of its last one and its texts joined by single
\* spaces.
C6_SequentialThenSerializedOnce ==
    /\ \A i \in 1..Len(calls) : calls[i] = i
    /\ pc \in { "dispatch", "cache", "generate" } =>
           /\ k \in 1..Len(scenes)
           /\ Len(results) = k - 1
           /\ Len(calls) = k - 1
    /\ pc # "done" => written = << >>
    /\ pc = "done" =>
           /\ Len(written) = 1
           /\ Len(calls) = Len(scenes)
           /\ Len(written[1].json) = Len(scenes)
           /\ \A j \in 1..Len(scenes) :
                  /\ written[1].json[j].start = scenes[j][1].start
                  /\ written[1].json[j].end = scenes[j][Len(scenes[j])].end
                  /\ written[1].json[j].transcript = SpacedTexts(scenes[j])

\* a run that ended well, with two scenes, the first of two utterances
C6_Witness ==
    /\ pc = "done"
    /\ Len(scenes) = 2
    /\ Len(scenes[1]) = 2
    /\ scenes[1][1].end # scenes[1][2].end
    /\ Len(written) = 1

\* C7: a remote call error at scene k aborts the run: no call for a later
\* scene, and nothing is ever written; a malformed reply never aborts it:
\* every reply, well-formed or not, gets its entry, the loop goes on to the
\* next scene, and a run that ends well wrote an entry for every scene.
C7_RemoteErrorAbortsMalformedReplyDoesNot ==
    /\ remote_failed # 0 =>
           /\ pc = "raised"
           /\ written = << >>
           /\ \A i \in 1..Len(calls) : calls[i] <= remote_failed
           /\ Len(cache_contexts) <= remote_failed
    /\ Len(results) = Len(replies)
    /\ pc \in { "loop", "dispatch", "cache", "generate", "write", "done" } =>
           /\ remote_failed = 0
           /\ k = Len(replies) + 1
    /\ pc = "done" => Len(written[1].json) = Len(scenes)

\* scene 1 got a reply that is not text, the run went on, and the remote
\* call of scene 2 raised
C7_Witness ==
    /\ pc = "raised"
    /\ remote_failed = 2
    /\ Len(replies) = 1
    /\ replies[1] = NoneText
    /\ Len(results) = 1
    /\ Len(scenes) = 3

\* C9: the background context is built once per run and never modified; every
\* scene's call is given that same document, and the shared context is
\* established once per run, not once per scene.
C9_ContextEstablishedOncePerRun ==
    /\ \A i \in 1..Len(cache_contexts) : cache_contexts[i] = system_instruction
    /\ Len(cache_contexts) <= 1

====
